---- MODULE Spec2Model ----
(***************************************************************************)
(* Beam and half-cylinder concrete visualizer (beam_concrete_app.py).      *)
(*                                                                         *)
(* The script is re-run from top to bottom on every widget change; each    *)
(* action below is one widget change followed by the whole re-run.         *)
(*                                                                         *)
(* Numbers.  Python floats are IEEE-754 binary64.  They are modelled as    *)
(* binary floating-point numbers with a MantBits-bit significand, an       *)
(* unbounded exponent and round-to-nearest-even after every operation:     *)
(* the same arithmetic at a smaller width.  A number is a record           *)
(* [m |-> significand, e |-> exponent] of value m * 2^e, with m = 0 and    *)
(* e = 0 for zero and 2^(MantBits-1) <= |m| < 2^MantBits otherwise, so     *)
(* two numbers are equal exactly when their records are.                   *)
(*                                                                         *)
(* Angles.  cos and sin are not evaluated numerically.  An angle sample is *)
(* kept as its index in theta, and a surface coordinate a * cos(Theta) is  *)
(* kept as the record of its radius, its function and its angle.  Only     *)
(* sin(-pi/2) = -1 and sin(pi/2) = 1 (exact in binary64 too) are used.     *)
(***************************************************************************)
EXTENDS Integers, Sequences, FiniteSets

\* Width of the significand of the modelled floating-point format.
MantBits == 10

----------------------------------------------------------------------------
\* Floating-point arithmetic (Python float operators *, /, +, -, **2, np.sqrt).

Abs(n) == IF n < 0 THEN -n ELSE n

Sgn(n) == IF n < 0 THEN -1 ELSE IF n > 0 THEN 1 ELSE 0

Zero == [m |-> 0, e |-> 0]

\* The number of binary digits of n.
BitLen[n \in Nat] == IF n = 0 THEN 0 ELSE 1 + BitLen[n \div 2]

\* The float nearest to s * (n + t) * 2^e, where n >= 0, s is the sign and
\* t is in (0, 1) when sticky and 0 otherwise; ties go to the even significand.
\* When n has fewer than MantBits bits the value must be exact (not sticky).
Round(s, n, e, sticky) ==
    IF n = 0 THEN Zero
    ELSE LET k == BitLen[n] - MantBits IN
         IF k <= 0 THEN [m |-> s * n * 2^(-k), e |-> e + k]
         ELSE LET q    == n \div 2^k
                  r    == n % 2^k
                  half == 2^(k - 1)
                  up   == \/ r > half
                          \/ r = half /\ sticky
                          \/ r = half /\ ~sticky /\ q % 2 = 1
                  q1   == IF up THEN q + 1 ELSE q
              IN IF q1 = 2^MantBits
                 THEN [m |-> s * 2^(MantBits - 1), e |-> e + k + 1]
                 ELSE [m |-> s * q1, e |-> e + k]

FromInt(n) == Round(Sgn(n), Abs(n), 0, FALSE)

Neg(a) == [m |-> -a.m, e |-> a.e]

Mul(a, b) ==
    Round(Sgn(a.m) * Sgn(b.m), Abs(a.m) * Abs(b.m), a.e + b.e, FALSE)

Div(a, b) ==
    LET n == Abs(a.m) * 2^(MantBits + 2)
    IN Round(Sgn(a.m) * Sgn(b.m), n \div Abs(b.m), a.e - b.e - (MantBits + 2),
             n % Abs(b.m) # 0)

\* a + b for a # 0, b # 0 and a.e >= b.e.  A b more than MantBits + 3 binary
\* places below a is less than a quarter of the gap to either neighbour of a.
AddOrdered(a, b) ==
    LET d == a.e - b.e IN
    IF d > MantBits + 3 THEN a
    ELSE LET sum == a.m * 2^d + b.m
         IN Round(Sgn(sum), Abs(sum), b.e, FALSE)

Add(a, b) ==
    IF a.m = 0 THEN b
    ELSE IF b.m = 0 THEN a
    ELSE IF a.e >= b.e THEN AddOrdered(a, b)
    ELSE AddOrdered(b, a)

Sub(a, b) == Add(a, Neg(b))

\* The largest s in lo..hi with s * s <= n (lo * lo <= n < (hi + 1)^2).
ISqrtBetween[n \in Nat, lo \in Nat, hi \in Nat] ==
    IF lo = hi THEN lo
    ELSE LET mid == (lo + hi + 1) \div 2
         IN IF mid * mid <= n THEN ISqrtBetween[n, mid, hi]
            ELSE ISqrtBetween[n, lo, mid - 1]

\* np.sqrt of a >= 0, correctly rounded.
Sqrt(a) ==
    IF a.m = 0 THEN Zero
    ELSE LET k == IF (a.e - (MantBits + 2)) % 2 = 0
                  THEN MantBits + 2 ELSE MantBits + 3
             n == a.m * 2^k
             s == ISqrtBetween[n, 0, 2^((BitLen[n] + 1) \div 2)]
         IN Round(1, s, (a.e - k) \div 2, s * s # n)

Sq(a) == Mul(a, a)

\* a < b, exactly.
Less(a, b) ==
    IF a.m = 0 THEN b.m > 0
    ELSE IF b.m = 0 THEN a.m < 0
    ELSE IF Sgn(a.m) # Sgn(b.m) THEN a.m < 0
    ELSE IF a.e = b.e THEN a.m < b.m
    ELSE IF a.m > 0 THEN a.e < b.e
    ELSE a.e > b.e

Leq(a, b) == a = b \/ Less(a, b)

\* A decimal literal num/den of the source, as the float Python reads it.
Dec(num, den) == Div(FromInt(num), FromInt(den))


\* a > 0
IsPos(a) == a.m > 0

Two == FromInt(2)

----------------------------------------------------------------------------
\* Unit conversion

INCH_TO_M == Dec(254, 10000)

to_si(val, from_unit) ==
    IF from_unit = "in" THEN Mul(val, INCH_TO_M) ELSE val

\* from_si with the factor applied the wrong way round.
from_si_times(val, to_unit) ==
    IF to_unit = "in" THEN Mul(val, INCH_TO_M) ELSE val

from_si(val, to_unit) ==
    IF to_unit = "in" THEN Div(val, INCH_TO_M) ELSE val

----------------------------------------------------------------------------
\* numpy helpers, as the script uses them

\* A one-dimensional array: the function f on 1..n as a sequence.
Array(f) == f \o <<>>

\* np.linspace with endpoint=False: the step is a num-th of the range and the
\* last sample falls short of stop.
LinspaceOpen(start, stop, num) ==
    LET step == Div(Sub(stop, start), FromInt(num))
    IN Array([k \in 1..num |-> Add(Mul(FromInt(k - 1), step), start)])

\* np.linspace(start, stop, num): num samples start + k * step with
\* step = (stop - start) / (num - 1), the last one set to stop itself.
Linspace(start, stop, num) ==
    LET step == Div(Sub(stop, start), FromInt(num - 1))
    IN Array([k \in 1..num |->
          IF k = num THEN stop ELSE Add(Mul(FromInt(k - 1), step), start)])

\* A two-dimensional array that np.meshgrid returns, or an elementwise image of
\* one, is constant along one axis.  It is kept as its shape, the axis along
\* which it varies and its values along that axis: the element in row i and
\* column j is At(g, i, j).
At(g, i, j) == IF g.varies = "col" THEN g.vec[j] ELSE g.vec[i]

\* The shape of a two-dimensional array.
Shape(g) == <<g.nrows, g.ncols>>

\* np.meshgrid(cols, rows): two arrays of Len(rows) rows and Len(cols) columns,
\* the first repeating cols in every row, the second rows in every column.
MeshCols(cols, rows) ==
    [nrows |-> Len(rows), ncols |-> Len(cols), varies |-> "col", vec |-> cols]

MeshRows(cols, rows) ==
    [nrows |-> Len(rows), ncols |-> Len(cols), varies |-> "row", vec |-> rows]

\* r * np.cos(G) and r * np.sin(G) on an array of angles, each element kept
\* unevaluated as its radius, its function and its angle.
Scaled(r, f, G) ==
    [G EXCEPT !.vec =
        Array([n \in 1..Len(G.vec) |-> [r |-> r, f |-> f, th |-> G.vec[n]]])]

\* np.zeros_like(g)
ZerosLike(g) == [g EXCEPT !.vec = Array([n \in 1..Len(g.vec) |-> Zero])]

\* format(v, ".2f"): the decimal nearest to v with two places (ties to even),
\* as a whole number of hundredths.
Fmt2(v) ==
    LET n == Abs(v.m) * 100
        k == -v.e
    IN IF v.e >= 0 THEN Sgn(v.m) * n * 2^v.e
       ELSE IF k > BitLen[n] + 1 THEN 0
       ELSE LET q    == n \div 2^k
                r    == n % 2^k
                half == 2^(k - 1)
                up   == r > half \/ (r = half /\ q % 2 = 1)
            IN Sgn(v.m) * (IF up THEN q + 1 ELSE q)

----------------------------------------------------------------------------
\* The script

UnitSystems == {"SI (m)", "Imperial (in)"}

Widgets == {"x", "y", "z", "clearance", "shell_height", "shell_thickness"}

\* value= of the six number_input widgets, per unit system
DefaultValue(us) ==
    IF us = "SI (m)"
    THEN [x |-> Dec(15, 100), y |-> Dec(30, 100), z |-> Dec(30, 100),
          clearance |-> Dec(5, 100), shell_height |-> Dec(60, 100),
          shell_thickness |-> Dec(5, 100)]
    ELSE [x |-> Dec(6, 1), y |-> Dec(12, 1), z |-> Dec(12, 1),
          clearance |-> Dec(2, 1), shell_height |-> Dec(24, 1),
          shell_thickness |-> Dec(2, 1)]

\* min_value= of the six number_input widgets, per unit system
MinValue(us) ==
    IF us = "SI (m)"
    THEN [x |-> Dec(1, 100), y |-> Dec(1, 100), z |-> Dec(1, 100),
          clearance |-> Zero, shell_height |-> Dec(1, 100),
          shell_thickness |-> Dec(5, 1000)]
    ELSE [x |-> Dec(1, 10), y |-> Dec(1, 10), z |-> Dec(1, 10),
          clearance |-> Zero, shell_height |-> Dec(1, 10),
          shell_thickness |-> Dec(2, 10)]

\* The unit the number_input labels of a unit system name.
InputUnit(us) == IF us = "SI (m)" THEN "m" ELSE "in"

\* x, y, z, clearance, shell_height, shell_thickness of the script: the widget
\* values in SI.
ToBase(us, inp) ==
    IF us = "SI (m)" THEN inp
    ELSE [w \in Widgets |-> to_si(inp[w], "in")]

\* The diagonal with the width halved like the height.
DiagOfHalves(x_, z_) == Sqrt(Add(Sq(Div(x_, Two)), Sq(Div(z_, Two))))

\* diag = np.sqrt(x**2 + (z/2)**2); a = diag + clearance
Diag(x_, z_) == Sqrt(Add(Sq(x_), Sq(Div(z_, Two))))

\* The radius with the clearance taken off instead of added.
InnerRadiusLessClearance(x_, z_, clearance_) ==
    Sub(Diag(x_, z_), clearance_)

InnerRadius(x_, z_, clearance_) == Add(Diag(x_, z_), clearance_)

\* Sample counts of the three np.linspace grids and of the sweep
AngularSamples == 100

ElevationSamples == 30

FlatSamples == 30

SweepSamples == 50

\* np.linspace(-np.pi/2, np.pi/2, num), each angle as a whole number of
\* pi / (2 * (num - 1)): -(num - 1), -(num - 3), ..., num - 3, num - 1.
HalfTurn(num) == Array([n \in 1..num |-> 2 * (n - 1) - (num - 1)])

\* The angles -pi/2 and pi/2 of theta in that unit.
MinusHalfPi == -(AngularSamples - 1)

HalfPi == AngularSamples - 1

\* Inner surface trace: X_inner, Y_inner, Z_inner
InnerSurface(a_, Theta, Zgrid_shell) ==
    [x |-> Scaled(a_, "cos", Theta),
     y |-> Scaled(a_, "sin", Theta),
     z |-> Zgrid_shell]

\* The outer surface drawn at the inner radius.
OuterSurfaceAtInner(a_, shell_thickness_, Theta, Zgrid_shell) ==
    [x |-> Scaled(a_, "cos", Theta),
     y |-> Scaled(a_, "sin", Theta),
     z |-> Zgrid_shell]

\* Outer surface trace: X_outer, Y_outer, Z_outer
OuterSurface(a_, shell_thickness_, Theta, Zgrid_shell) ==
    [x |-> Scaled(Add(a_, shell_thickness_), "cos", Theta),
     y |-> Scaled(Add(a_, shell_thickness_), "sin", Theta),
     z |-> Zgrid_shell]

\* Flat back trace: X_flat, Y_flat_grid, Z_flat_grid from Y_flat and Z_flat
FlatGrid(Y_flat, Z_flat) ==
    [x |-> ZerosLike(MeshCols(Y_flat, Z_flat)),
     y |-> MeshCols(Y_flat, Z_flat),
     z |-> MeshRows(Y_flat, Z_flat)]

\* The flat back spanning the inner radius only.
FlatBackInner(a_, shell_thickness_, shell_height_) ==
    FlatGrid(Linspace(Neg(a_), a_, FlatSamples),
             Linspace(Zero, shell_height_, FlatSamples))

\* b = a + shell_thickness; Y_flat and Z_flat
FlatBack(a_, shell_thickness_, shell_height_) ==
    FlatGrid(Linspace(Neg(Add(a_, shell_thickness_)),
                      Add(a_, shell_thickness_), FlatSamples),
             Linspace(Zero, shell_height_, FlatSamples))

\* The box laid from y = 0 to y instead of centred on y = 0.
beam_vertices_uncentred(x_, y_, z_) ==
    << <<Zero, Zero, Zero>>, <<x_, Zero, Zero>>,
       <<x_, y_, Zero>>,     <<Zero, y_, Zero>>,
       <<Zero, Zero, z_>>,   <<x_, Zero, z_>>,
       <<x_, y_, z_>>,       <<Zero, y_, z_>> >>

\* The 8 rows of beam_vertices
beam_vertices(x_, y_, z_) ==
    << <<Zero, Div(Neg(y_), Two), Zero>>, <<x_, Div(Neg(y_), Two), Zero>>,
       <<x_, Div(y_, Two), Zero>>,        <<Zero, Div(y_, Two), Zero>>,
       <<Zero, Div(Neg(y_), Two), z_>>,   <<x_, Div(Neg(y_), Two), z_>>,
       <<x_, Div(y_, Two), z_>>,          <<Zero, Div(y_, Two), z_>> >>

beam_i == <<0, 0, 1, 1, 2, 2, 3, 3, 4, 4, 5, 5>>

beam_j == <<1, 3, 2, 0, 3, 1, 0, 2, 5, 7, 6, 4>>

beam_k == <<3, 2, 3, 1, 1, 0, 2, 0, 7, 6, 7, 5>>

\* Beam trace (go.Mesh3d)
BeamMesh(x_, y_, z_) ==
    [vertices |-> beam_vertices(x_, y_, z_),
     i |-> beam_i, j |-> beam_j, k |-> beam_k]

\* f'X ({"in" if unit_system != "SI (m)" else "m"})': the axis name and the
\* unit the title shows.
AxisTitle(name, us) ==
    [name |-> name, unit |-> IF us # "SI (m)" THEN "in" ELSE "m"]

\* scene=dict(xaxis_title=..., yaxis_title=..., zaxis_title=...)
Scene(us) ==
    [xaxis_title |-> AxisTitle("X", us),
     yaxis_title |-> AxisTitle("Y", us),
     zaxis_title |-> AxisTitle("Z", us)]

\* One line of the st.info summary: the number printed and the unit after it.
InfoLine(v) == [value |-> Fmt2(from_si(v, "in")), unit |-> "in"]

Info(x_, y_, z_, clearance_, shell_height_, shell_thickness_, a_) ==
    [x |-> InfoLine(x_), y |-> InfoLine(y_), z |-> InfoLine(z_),
     clearance |-> InfoLine(clearance_),
     shell_height |-> InfoLine(shell_height_),
     shell_thickness |-> InfoLine(shell_thickness_),
     a |-> InfoLine(a_)]

\* beam_widths = np.linspace(to_si(2.0, 'in'), to_si(12.0, 'in'), 50)
BeamWidths(num) ==
    Linspace(to_si(Dec(2, 1), "in"), to_si(Dec(12, 1), "in"), num)

\* radii = np.sqrt(beam_widths**2 + (z/2)**2) + clearance
Radii(widths, z_, clearance_) ==
    Array([k \in 1..Len(widths) |->
        Add(Sqrt(Add(Sq(widths[k]), Sq(Div(z_, Two)))), clearance_)])

\* radii_out, beam_widths_out
SweepOut(arr, us) ==
    IF us # "SI (m)"
    THEN Array([k \in 1..Len(arr) |-> from_si(arr[k], "in")])
    ELSE arr

\* The sweep chart: the trace's x and y and the two axis titles.
Chart(widths, rs, us) ==
    [x |-> SweepOut(widths, us), y |-> SweepOut(rs, us),
     xaxis_title |-> AxisTitle("Beam Width", us),
     yaxis_title |-> AxisTitle("Required Inner Radius", us)]

VARIABLES
    unit_system,     \* the selectbox
    number_input,    \* the six number_input widgets, in the unit of their labels
    x, y, z, clearance, shell_height, shell_thickness,   \* the same in SI
    a,               \* required inner radius
    info,            \* the st.info summary
    fig,             \* the 3D figure
    beam_widths, radii,   \* the sweep, in SI
    fig2             \* the sweep chart

vars == <<unit_system, number_input, x, y, z, clearance, shell_height,
          shell_thickness, a, info, fig, beam_widths, radii, fig2>>

\* What a run hands to st.info and st.plotly_chart, from the values it has
\* computed: the inputs in SI, the radius a, Z_shell, beam_widths and radii.
Outputs(us, inp, si, a_, Z_shell, widths, rs) ==
    LET theta       == HalfTurn(AngularSamples)
        Theta       == MeshCols(theta, Z_shell)
        Zgrid_shell == MeshRows(theta, Z_shell)
    IN [unit_system |-> us, number_input |-> inp,
        x |-> si.x, y |-> si.y, z |-> si.z, clearance |-> si.clearance,
        shell_height |-> si.shell_height,
        shell_thickness |-> si.shell_thickness,
        a |-> a_,
        info |-> Info(si.x, si.y, si.z, si.clearance, si.shell_height,
                      si.shell_thickness, a_),
        fig |-> [inner |-> InnerSurface(a_, Theta, Zgrid_shell),
                 outer |-> OuterSurface(a_, si.shell_thickness, Theta,
                                        Zgrid_shell),
                 flat  |-> FlatBack(a_, si.shell_thickness, si.shell_height),
                 beam  |-> BeamMesh(si.x, si.y, si.z),
                 scene |-> Scene(us)],
        beam_widths |-> widths, radii |-> rs,
        fig2 |-> Chart(widths, rs, us)]

\* The run from the sweep on: radii from beam_widths.
Sweep(us, inp, si, a_, Z_shell, widths) ==
    Outputs(us, inp, si, a_, Z_shell, widths,
            Radii(widths, si.z, si.clearance))

\* The run from the inputs in SI on: a, Z_shell and beam_widths.
Calculate(us, inp, si) ==
    Sweep(us, inp, si, InnerRadius(si.x, si.z, si.clearance),
          Linspace(Zero, si.shell_height, ElevationSamples),
          BeamWidths(SweepSamples))

\* One run of the script from top to bottom on the widget state (us, inp):
\* everything it computes and hands to st.info and st.plotly_chart.
Script(us, inp) == Calculate(us, inp, ToBase(us, inp))

\* The first run: the selectbox shows its first option and every number_input
\* its value=.
Init ==
    \E s \in {Script("SI (m)", DefaultValue("SI (m)"))} :
       /\ unit_system = s.unit_system
       /\ number_input = s.number_input
       /\ x = s.x
       /\ y = s.y
       /\ z = s.z
       /\ clearance = s.clearance
       /\ shell_height = s.shell_height
       /\ shell_thickness = s.shell_thickness
       /\ a = s.a
       /\ info = s.info
       /\ fig = s.fig
       /\ beam_widths = s.beam_widths
       /\ radii = s.radii
       /\ fig2 = s.fig2

\* A re-run after a widget change.
Rerun(us, inp) ==
    \E s \in {Script(us, inp)} :
       /\ unit_system' = s.unit_system
       /\ number_input' = s.number_input
       /\ x' = s.x
       /\ y' = s.y
       /\ z' = s.z
       /\ clearance' = s.clearance
       /\ shell_height' = s.shell_height
       /\ shell_thickness' = s.shell_thickness
       /\ a' = s.a
       /\ info' = s.info
       /\ fig' = s.fig
       /\ beam_widths' = s.beam_widths
       /\ radii' = s.radii
       /\ fig2' = s.fig2

\* How many of the values below a user may type into each widget.
MaxTyped == 1

\* Values typed into the widgets, in the unit of the labels.
Typed(us) ==
    IF us = "SI (m)"
    THEN [x |-> <<Dec(30, 100), Dec(1, 100), Dec(45, 100)>>,
          y |-> <<Dec(60, 100), Dec(10, 100), Dec(1, 100)>>,
          z |-> <<Dec(10, 100), Dec(50, 100), Dec(1, 100)>>,
          clearance |-> <<Zero, Dec(1, 100), Dec(10, 100)>>,
          shell_height |-> <<Dec(30, 100), Dec(1, 100), Dec(100, 100)>>,
          shell_thickness |-> <<Dec(5, 1000), Dec(10, 100), Dec(1, 100)>>]
    ELSE [x |-> <<Dec(3, 1), Dec(1, 10), Dec(18, 1)>>,
          y |-> <<Dec(24, 1), Dec(4, 1), Dec(1, 10)>>,
          z |-> <<Dec(4, 1), Dec(20, 1), Dec(1, 10)>>,
          clearance |-> <<Zero, Dec(5, 10), Dec(4, 1)>>,
          shell_height |-> <<Dec(12, 1), Dec(1, 10), Dec(40, 1)>>,
          shell_thickness |-> <<Dec(2, 10), Dec(4, 1), Dec(5, 10)>>]

\* What a widget can hold: its value= or a typed value no less than min_value=.
Choices(us, w) ==
    {DefaultValue(us)[w]} \cup
    {v \in {Typed(us)[w][n] : n \in 1..MaxTyped} : Leq(MinValue(us)[w], v)}

\* The user picks a unit system.  The number_input widgets of the other
\* branch are new widgets (their labels differ) and start from value=.
SelectUnitSystem(us) ==
    /\ us # unit_system
    /\ Rerun(us, DefaultValue(us))

\* The user changes one number_input.
ChangeInput(w, v) ==
    /\ v # number_input[w]
    /\ Rerun(unit_system, [number_input EXCEPT ![w] = v])

SetX == \E v \in Choices(unit_system, "x") : ChangeInput("x", v)

SetY == \E v \in Choices(unit_system, "y") : ChangeInput("y", v)

SetZ == \E v \in Choices(unit_system, "z") : ChangeInput("z", v)

SetClearance ==
    \E v \in Choices(unit_system, "clearance") : ChangeInput("clearance", v)

SetShellHeight ==
    \E v \in Choices(unit_system, "shell_height") : ChangeInput("shell_height", v)

SetShellThickness ==
    \E v \in Choices(unit_system, "shell_thickness") :
        ChangeInput("shell_thickness", v)

SetUnitSystem == \E us \in UnitSystems : SelectUnitSystem(us)

Next ==
    \/ SetUnitSystem
    \/ SetX
    \/ SetY
    \/ SetZ
    \/ SetClearance
    \/ SetShellHeight
    \/ SetShellThickness

Spec == Init /\ [][Next]_vars

----------------------------------------------------------------------------
\* The calculation on its own: lines 39-41 on inputs drawn freely.
\*
\* The state is x, z and clearance (in SI) and the radius a computed from
\* them, NotRun before the first calculation; the variables the calculation
\* does not involve hold NotRun throughout.

NotRun == [run |-> FALSE]

\* Beam widths and heights the calculation is run on: none, the widget
\* minimum, ordinary sizes and a very long one.
Lengths ==
    {Zero, Dec(1, 100), Dec(15, 100), Dec(30, 100), Dec(45, 100), Dec(6, 1),
     Dec(10000000, 1)}

\* Clearances it is run on: none, two hair's breadths, the default and two
\* large ones.
Clearances ==
    {Zero, Dec(1, 10000), Dec(2, 10000), Dec(5, 100), Dec(6, 1),
     Dec(10000000, 1)}

RadiusInit ==
    /\ x \in Lengths
    /\ z \in Lengths
    /\ clearance \in Clearances
    /\ a = NotRun
    /\ unit_system = NotRun
    /\ number_input = NotRun
    /\ y = NotRun
    /\ shell_height = NotRun
    /\ shell_thickness = NotRun
    /\ info = NotRun
    /\ fig = NotRun
    /\ beam_widths = NotRun
    /\ radii = NotRun
    /\ fig2 = NotRun

\* The calculation on (x_, z_, clearance_).
Recalculate(x_, z_, clearance_) ==
    /\ x' = x_
    /\ z' = z_
    /\ clearance' = clearance_
    /\ a' = InnerRadius(x_, z_, clearance_)
    /\ UNCHANGED <<unit_system, number_input, y, shell_height,
                   shell_thickness, info, fig, beam_widths, radii, fig2>>

\* The first calculation, on the inputs drawn.
FirstCalculation == a = NotRun /\ Recalculate(x, z, clearance)

\* The calculation again after one input has changed.
WidthStep ==
    a # NotRun /\ \E w \in Lengths \ {x} : Recalculate(w, z, clearance)

HeightStep ==
    a # NotRun /\ \E h \in Lengths \ {z} : Recalculate(x, h, clearance)

ClearanceStep ==
    a # NotRun /\ \E c \in Clearances \ {clearance} : Recalculate(x, z, c)

RadiusNext == FirstCalculation \/ WidthStep \/ HeightStep \/ ClearanceStep

SpecRadius == RadiusInit /\ [][RadiusNext]_vars

----------------------------------------------------------------------------
\* The unit conversion on its own: lines 12-22 on values drawn freely.
\*
\* One widget value is followed through the script: number_input is the value
\* typed and the unit of its label, x is to_si of it (line 25) and info is
\* from_si of x before formatting (line 46).  The other variables hold NotRun.

Units == {"in", "m", "ft"}

\* Every significand of the format, of either sign, at one exponent, and zero.
\* (Multiplying v by a power of two multiplies both conversions by it.)
Typings ==
    {Zero} \cup
    {[m |-> sg * n, e |-> -MantBits] :
        sg \in {-1, 1}, n \in 2^(MantBits - 1)..(2^MantBits - 1)}

UnitsInit ==
    /\ number_input \in [val : Typings, unit : Units]
    /\ x = NotRun
    /\ info = NotRun
    /\ unit_system = NotRun
    /\ y = NotRun
    /\ z = NotRun
    /\ clearance = NotRun
    /\ shell_height = NotRun
    /\ shell_thickness = NotRun
    /\ a = NotRun
    /\ fig = NotRun
    /\ beam_widths = NotRun
    /\ radii = NotRun
    /\ fig2 = NotRun

ToSi ==
    /\ x = NotRun
    /\ x' = to_si(number_input.val, number_input.unit)
    /\ UNCHANGED <<unit_system, number_input, y, z, clearance, shell_height,
                   shell_thickness, a, info, fig, beam_widths, radii, fig2>>

FromSi ==
    /\ x # NotRun
    /\ info = NotRun
    /\ info' = from_si(x, number_input.unit)
    /\ UNCHANGED <<unit_system, number_input, x, y, z, clearance,
                   shell_height, shell_thickness, a, fig, beam_widths, radii,
                   fig2>>

UnitsNext == ToSi \/ FromSi

SpecUnits == UnitsInit /\ [][UnitsNext]_vars

----------------------------------------------------------------------------
\* Properties of the calculation (under SpecRadius)

\* C3, as stated: for width > 0, height > 0 and clearance >= 0 the inner
\* radius is greater than the width and greater than the clearance.
C3_RadiusAboveWidthAndClearance ==
    (a # NotRun /\ IsPos(x) /\ IsPos(z) /\ Leq(Zero, clearance)) =>
        Less(x, a) /\ Less(clearance, a)

\* C3, as the arithmetic of the code allows: for width > 0, height > 0 and
\* clearance >= 0 the inner radius is positive, no less than the width and no
\* less than the clearance (equal when the sum rounds back to the larger term).
C3_RadiusNotBelowWidthOrClearance ==
    (a # NotRun /\ IsPos(x) /\ IsPos(z) /\ Leq(Zero, clearance)) =>
        IsPos(a) /\ Leq(x, a) /\ Leq(clearance, a)

\* A radius computed from a positive width and height that lies strictly above
\* both the width and a positive clearance.
C3_Witness ==
    /\ a # NotRun
    /\ IsPos(x) /\ IsPos(z) /\ IsPos(clearance)
    /\ Less(x, a) /\ Less(clearance, a)

\* C6, as stated: the inner radius grows strictly when the width, the height
\* or the clearance grows and the other two stay.
C6_RadiusStrictlyIncreasing ==
    [][a # NotRun =>
        /\ (Less(x, x') /\ z' = z /\ clearance' = clearance) => Less(a, a')
        /\ (Less(z, z') /\ x' = x /\ clearance' = clearance) => Less(a, a')
        /\ (Less(clearance, clearance') /\ x' = x /\ z' = z) => Less(a, a')
      ]_vars

\* C6, as the arithmetic of the code allows: the inner radius never shrinks
\* when the width, the height or the clearance grows and the other two stay.
C6_RadiusNonDecreasing ==
    [][a # NotRun =>
        /\ (Less(x, x') /\ z' = z /\ clearance' = clearance) => Leq(a, a')
        /\ (Less(z, z') /\ x' = x /\ clearance' = clearance) => Leq(a, a')
        /\ (Less(clearance, clearance') /\ x' = x /\ z' = z) => Leq(a, a')
      ]_vars

\* A radius above the one the smallest width, the smallest height and no
\* clearance give, with all three inputs above those: every input has grown
\* and the radius with it.
C6_Witness ==
    /\ a # NotRun
    /\ IsPos(x) /\ IsPos(z) /\ IsPos(clearance)
    /\ Less(InnerRadius(Zero, z, clearance), a)
    /\ Less(InnerRadius(x, Zero, clearance), a)
    /\ Less(InnerRadius(x, z, Zero), a)

----------------------------------------------------------------------------
\* Properties of the unit conversion (under SpecUnits)

\* |b - v| is at most one unit in the last place of v.
WithinUlp(b, v) ==
    IF b = v THEN TRUE
    ELSE IF b.m = 0 \/ v.m = 0 \/ Abs(b.e - v.e) > 1 THEN FALSE
    ELSE LET lo == IF b.e < v.e THEN b.e ELSE v.e
         IN Abs(b.m * 2^(b.e - lo) - v.m * 2^(v.e - lo)) <= 2^(v.e - lo)

\* C4, as stated: from_si(to_si(v, 'in'), 'in') equals v, and with any other
\* unit to_si and from_si return their argument.
C4_RoundTripExact ==
    /\ x # NotRun =>
          (number_input.unit # "in" => x = number_input.val)
    /\ info # NotRun =>
          /\ number_input.unit # "in" => info = x
          /\ info = number_input.val

\* C4, as the arithmetic of the code allows: from_si(to_si(v, 'in'), 'in') is
\* within one unit in the last place of v, and with any other unit to_si and
\* from_si return their argument.
C4_RoundTripWithinUlp ==
    /\ x # NotRun =>
          (number_input.unit # "in" => x = number_input.val)
    /\ info # NotRun =>
          /\ number_input.unit # "in" => info = x
          /\ WithinUlp(info, number_input.val)

\* A value in inches that went to SI and back and came back changed.
C4_Witness ==
    /\ number_input.unit = "in"
    /\ x = to_si(number_input.val, "in")
    /\ info = from_si(x, "in")
    /\ info # number_input.val

----------------------------------------------------------------------------
\* Properties of the script (under Spec)

\* Beam vertex n (1..8) as the figure holds it.
Vertex(n) == fig.beam.vertices[n]

\* Distance of beam vertex n from the z axis, plus the clearance.
Reach(n) == Add(Sqrt(Add(Sq(Vertex(n)[1]), Sq(Vertex(n)[2]))), clearance)

\* C1, as stated: every beam vertex is within the inner radius once the
\* clearance is added to its distance from the z axis, and the inner radius
\* is the smallest such radius (some vertex reaches it).
C1_RadiusClearsCorners ==
    /\ \A n \in 1..8 : Leq(Reach(n), a)
    /\ \E n \in 1..8 : Reach(n) = a

\* A beam longer than it is high, one corner of which reaches beyond a.
C1_Witness ==
    /\ IsPos(x) /\ IsPos(y) /\ IsPos(z) /\ Leq(Zero, clearance)
    /\ Less(z, y)
    /\ \E n \in 1..8 : Less(a, Reach(n))

\* The vertex numbers (0..7) of triangle n (1..12) of the beam mesh.
Triangle(n) == {fig.beam.i[n], fig.beam.j[n], fig.beam.k[n]}

\* The faces of the box, each as the numbers of the vertices on it: the
\* vertices that share their coordinate along one axis.
Faces ==
    {{n \in 0..7 : Vertex(n + 1)[axis] = Vertex(m + 1)[axis]} :
        axis \in 1..3, m \in 0..7}

\* The triangles lying on face f.
TrianglesOn(f) == {n \in 1..12 : Triangle(n) \subseteq f}

\* C2, as stated: the 12 triangles have three distinct vertices each on one
\* common face of the box, and each of the 6 faces carries exactly 2 of
\* them, which together span its four corners.
C2_TrianglesCoverFaces ==
    /\ Len(fig.beam.i) = 12 /\ Len(fig.beam.j) = 12 /\ Len(fig.beam.k) = 12
    /\ Cardinality(Faces) = 6
    /\ \A n \in 1..12 :
          /\ Cardinality(Triangle(n)) = 3
          /\ \E f \in Faces : Triangle(n) \subseteq f
    /\ \A f \in Faces :
          /\ Cardinality(TrianglesOn(f)) = 2
          /\ UNION {Triangle(n) : n \in TrianglesOn(f)} = f

\* A box with six faces of four corners, one face without any triangle and
\* one triangle that names a vertex twice.
C2_Witness ==
    /\ Cardinality(Faces) = 6
    /\ \A f \in Faces : Cardinality(f) = 4
    /\ \E f \in Faces : TrianglesOn(f) = {}
    /\ \E n \in 1..12 : Cardinality(Triangle(n)) < 3

\* The value of the float v in units of 2^lo (lo no more than v.e).
Scaled2(v, lo) == v.m * 2^(v.e - lo)

\* Sample k of num (counted from 1) of the samples w lies within two units
\* in the last place of the last sample of its place on the even division of
\* [w[1], w[num]].
NearEvenPlace(w, k, num) ==
    LET lo == w[1].e
    IN Abs((num - 1) * Scaled2(w[k], lo)
           - ((num - k) * Scaled2(w[1], lo) + (k - 1) * Scaled2(w[num], lo)))
         <= (num - 1) * 2 * 2^(w[num].e - lo)

\* C5: the sweep holds 50 widths and 50 radii; the widths are strictly
\* increasing and evenly spaced (each at its place on the even division of the
\* range, to within rounding), the first is to_si(2 in) and the last is
\* to_si(12 in); radius k is the inner radius for width k with the current
\* height and clearance.
C5_SweepOrdered ==
    /\ Len(beam_widths) = 50
    /\ Len(radii) = 50
    /\ beam_widths[1] = to_si(Dec(2, 1), "in")
    /\ beam_widths[50] = to_si(Dec(12, 1), "in")
    /\ \A k \in 1..49 : Less(beam_widths[k], beam_widths[k + 1])
    /\ \A k \in 1..50 : NearEvenPlace(beam_widths, k, 50)
    /\ \A k \in 1..50 : radii[k] = InnerRadius(beam_widths[k], z, clearance)

\* A sweep run with a height and a clearance that are not the defaults, the
\* radii growing from the first width to the last.
C5_Witness ==
    /\ z # ToBase(unit_system, DefaultValue(unit_system)).z
    /\ clearance # ToBase(unit_system, DefaultValue(unit_system)).clearance
    /\ Len(radii) = 50
    /\ radii[50] = InnerRadius(to_si(Dec(12, 1), "in"), z, clearance)
    /\ Less(radii[1], radii[50])

\* The sum s of p and q is p + q to within half a unit in its last place.
IsRoundedSum(s, p, q) ==
    LET lo == IF p.e < q.e THEN p.e ELSE q.e
    IN /\ s.e >= lo
       /\ 2 * Abs(Scaled2(s, lo) - Scaled2(p, lo) - Scaled2(q, lo))
             <= 2^(s.e - lo)

C8_BeamIsBox ==
    /\ IsPos(x) /\ IsPos(y) /\ IsPos(z)
    /\ Len(fig.beam.vertices) = 8
    /\ {Vertex(n) : n \in 1..8}
          = {<<bx, by, bz>> : bx \in {Zero, x},
                              by \in {Neg(Div(y, Two)), Div(y, Two)},
                              bz \in {Zero, z}}
    /\ Cardinality({Vertex(n) : n \in 1..8}) = 8
    /\ Cardinality({n \in 1..8 : Vertex(n)[1] = Zero}) = 4
    /\ Len(fig.beam.i) = 12 /\ Len(fig.beam.j) = 12 /\ Len(fig.beam.k) = 12
    /\ \A n \in 1..12 : Triangle(n) \subseteq 0..7

\* A beam in Imperial units whose width, length and height all differ, with
\* its far top corner in the mesh.
C8_Witness ==
    /\ unit_system = "Imperial (in)"
    /\ x # y /\ y # z /\ x # z
    /\ Vertex(7) = <<x, Div(y, Two), z>>

\* The y coordinate of a point r * sin(th) at an end edge of a shell, where
\* sin is -1 or 1.
EdgeY(p) == IF p.th = HalfPi THEN p.r ELSE Neg(p.r)

\* C9: the flat back has x = 0 throughout, y from -(a + shell_thickness) to
\* a + shell_thickness and z from 0 to shell_height; its first and last y are
\* the y of the outer surface at -pi/2 and pi/2, and its first and last z
\* those of the shell.
C9_FlatBackClosesShell ==
    /\ Shape(fig.flat.x) = Shape(fig.flat.y)
    /\ Shape(fig.flat.z) = Shape(fig.flat.y)
    /\ \A i \in 1..fig.flat.y.nrows, j \in 1..fig.flat.y.ncols :
          /\ At(fig.flat.x, i, j) = Zero
          /\ Leq(Neg(Add(a, shell_thickness)), At(fig.flat.y, i, j))
          /\ Leq(At(fig.flat.y, i, j), Add(a, shell_thickness))
          /\ Leq(Zero, At(fig.flat.z, i, j))
          /\ Leq(At(fig.flat.z, i, j), shell_height)
    /\ \A i \in 1..fig.flat.y.nrows :
          /\ At(fig.flat.y, i, 1) = Neg(Add(a, shell_thickness))
          /\ At(fig.flat.y, i, fig.flat.y.ncols) = Add(a, shell_thickness)
          /\ At(fig.outer.y, 1, 1).th = MinusHalfPi
          /\ At(fig.outer.y, 1, 100).th = HalfPi
          /\ At(fig.flat.y, i, 1) = EdgeY(At(fig.outer.y, 1, 1))
          /\ At(fig.flat.y, i, fig.flat.y.ncols)
                = EdgeY(At(fig.outer.y, 1, 100))
    /\ \A j \in 1..fig.flat.z.ncols :
          /\ At(fig.flat.z, 1, j) = Zero
          /\ At(fig.flat.z, fig.flat.z.nrows, j) = shell_height
          /\ At(fig.flat.z, 1, j) = At(fig.outer.z, 1, 1)
          /\ At(fig.flat.z, fig.flat.z.nrows, j) = At(fig.outer.z, 30, 1)

\* A flat back drawn for a shell height and thickness that are not the
\* defaults, wider than the inner shell.
C9_Witness ==
    /\ shell_height
          # ToBase(unit_system, DefaultValue(unit_system)).shell_height
    /\ shell_thickness
          # ToBase(unit_system, DefaultValue(unit_system)).shell_thickness
    /\ Less(a, At(fig.flat.y, 1, fig.flat.y.ncols))
    /\ At(fig.flat.x, 1, 1) = Zero

\* The length v (in SI) in the unit a label names.
InUnit(v, unit) == IF unit = "in" THEN from_si(v, "in") ELSE v

\* The summary shows from_si(., 'in') of every SI value, to two places, with
\* the unit 'in'.
SummaryInInches ==
    \A line \in {<<info.x, x>>, <<info.y, y>>, <<info.z, z>>,
                 <<info.clearance, clearance>>,
                 <<info.shell_height, shell_height>>,
                 <<info.shell_thickness, shell_thickness>>, <<info.a, a>>} :
        line[1] = [value |-> Fmt2(from_si(line[2], "in")), unit |-> "in"]

\* The three axis titles of the 3D figure name the unit of the selector, and
\* the beam vertices, the shell radii, the back plane and the elevations are
\* lengths in that unit.
SceneInTitleUnit ==
    /\ fig.scene.xaxis_title.unit
          = (IF unit_system = "SI (m)" THEN "m" ELSE "in")
    /\ fig.scene.yaxis_title.unit = fig.scene.xaxis_title.unit
    /\ fig.scene.zaxis_title.unit = fig.scene.xaxis_title.unit
    /\ Vertex(7) = <<InUnit(x, fig.scene.xaxis_title.unit),
                     InUnit(Div(y, Two), fig.scene.yaxis_title.unit),
                     InUnit(z, fig.scene.zaxis_title.unit)>>
    /\ At(fig.inner.x, 1, 1).r = InUnit(a, fig.scene.xaxis_title.unit)
    /\ At(fig.outer.y, 1, 1).r
          = InUnit(Add(a, shell_thickness), fig.scene.yaxis_title.unit)
    /\ At(fig.flat.y, 1, FlatSamples)
          = InUnit(Add(a, shell_thickness), fig.scene.yaxis_title.unit)
    /\ At(fig.inner.z, ElevationSamples, 1)
          = InUnit(shell_height, fig.scene.zaxis_title.unit)

\* The two axis titles of the sweep chart name the unit of the selector, and
\* its widths and radii are the sweep's in that unit.
ChartInTitleUnit ==
    /\ fig2.xaxis_title.unit = (IF unit_system = "SI (m)" THEN "m" ELSE "in")
    /\ fig2.yaxis_title.unit = fig2.xaxis_title.unit
    /\ \A k \in 1..SweepSamples :
          /\ fig2.x[k] = InUnit(beam_widths[k], fig2.xaxis_title.unit)
          /\ fig2.y[k] = InUnit(radii[k], fig2.yaxis_title.unit)

\* C10, as stated: in both settings of the selector the summary, the 3D
\* figure and the sweep chart each show their lengths in the unit their
\* labels name.
C10_ShownInLabelledUnit ==
    SummaryInInches /\ SceneInTitleUnit /\ ChartInTitleUnit

\* The Imperial setting: axis titles in inches, the beam's far top corner in
\* the figure at its SI coordinates.
C10_Witness ==
    /\ unit_system = "Imperial (in)"
    /\ fig.scene.xaxis_title.unit = "in"
    /\ Vertex(7) = <<x, Div(y, Two), z>>
    /\ x # from_si(x, "in")
====
